---- MODULE Spec2Model ----
(***************************************************************************)
(* A model of the attention components of model3.ipynb: the single-head    *)
(* Attention with its lazily cached causal mask, MultiHeadAttentionBlock,  *)
(* PositionalEmbedding, the TimeSeriesTransformer forecasting model and    *)
(* the construction of the residual wrapper, decoder block and encoder.    *)
(*                                                                         *)
(* Conventions.  A tensor axis of length n is a sequence 1..n, so the      *)
(* Python index p is position p+1.  One batch element is modelled where    *)
(* the batch elements are computed independently.  exp is modelled by 2^x  *)
(* (positive, monotone, zero only on underflow or -inf) and a softmax      *)
(* weight is the exact fraction <<numerator, denominator>>; <<0, 0>> is    *)
(* NaN.  Python's None is the empty sequence.                              *)
(***************************************************************************)
EXTENDS Integers, Sequences, FiniteSets, TLC

VARIABLES obj, born, calls

vars == <<obj, born, calls>>

\* ------------------------------------------------------------------ bounds

MaxSeq == 3


\* largest sequence length of calls that overlap in time
MaxRace == 2

\* the threads that call forward
Threads == {1, 2}

Lengths == 1..MaxSeq

RaceLengths == 1..MaxRace

\* sequence lengths of the calls of MultiHeadAttentionBlock.forward
MaxLen == 2

BlockLengths == 1..MaxLen

\* largest d_model and largest number of heads
MaxModel == 2

\* largest n_embd of a TimeSeriesTransformer, d_model of a PositionalEmbedding
MaxEmbd == 5

\* largest block_size and seq_len
MaxBlock == 2

\* largest forecast_horizon
MaxHorizon == 2

\* largest batch size
MaxBatch == 2

\* largest number of blocks of an Encoder
MaxLayers == 2

\* dropout probabilities, in percent
DropRates == {0, 50}

\* initial values <<w_q, w_k, w_v, w_o>>
BlockParams == {<<1, 2, 1, 2>>}

\* values of a token's feature
TokVals == {0, 1}

\* initial values of a Linear layer's weight (random in the code)
ParamVals == {1, 2}

\* ------------------------------------------------------------------ values

None == <<>>

\* the fill of MultiHeadAttentionBlock.attention
NegBig == -1000000000

\* float('-inf'): below every other score
NegInf == 2 * NegBig

NaN == <<0, 0>>

\* F(e) with e evaluated once
Bind(e, F(_)) == CHOOSE r \in {F(x) : x \in {e}} : TRUE

RECURSIVE SumSeq(_)
SumSeq(s) == IF s = <<>> THEN 0 ELSE Head(s) + SumSeq(Tail(s))

MaxOf(s) == CHOOSE m \in {s[j] : j \in DOMAIN s} : \A j \in DOMAIN s : s[j] <= m

MinOfSet(S) == CHOOSE m \in S : \A n \in S : m <= n

Vectors(n, S) == [1..n -> S]

\* the triangle without its diagonal, torch.tril(..., diagonal=-1)
TrilStrict(n) == [i \in 1..n |-> [j \in 1..n |-> j < i]]

\* torch.tril(torch.ones((n, n))).bool()
Tril(n) == [i \in 1..n |-> [j \in 1..n |-> j <= i]]

\* ~m on a boolean matrix
Invert(m) == [i \in DOMAIN m |-> [j \in DOMAIN m[i] |-> ~m[i][j]]]

\* broadcasting of a 2-D mask to the shape of the scores
CanBroadcast(m, rows, cols) ==
    /\ Len(m) \in {1, rows}
    /\ Len(m[1]) \in {1, cols}

Broadcast(m, rows, cols) ==
    [i \in 1..rows |-> [j \in 1..cols |->
        m[IF Len(m) = 1 THEN 1 ELSE i][IF Len(m[1]) = 1 THEN 1 ELSE j]]]

\* Tensor.masked_fill(cond, val): val where cond holds, the old entry elsewhere
MaskedFill(scores, cond, val) ==
    [i \in DOMAIN scores |-> [j \in DOMAIN scores[i] |->
        IF cond[i][j] THEN val ELSE scores[i][j]]]

\* exp(s - m) of one entry of a row whose maximum is m, as a power of two
\* relative to the smallest entry `lo` that does not underflow
Underflows(s, m) == s = NegInf \/ s - m <= NegBig \div 2

ExpRel(s, m, lo) == IF Underflows(s, m) THEN 0 ELSE 2 ^ (s - lo)

\* softmax over the key axis of one row
SoftmaxRow(r) ==
    Bind(MaxOf(r), LAMBDA m :
        IF m = NegInf
        THEN [j \in DOMAIN r |-> NaN]
        ELSE Bind(MinOfSet({r[j] : j \in {k \in DOMAIN r : ~Underflows(r[k], m)}}),
             LAMBDA lo :
             Bind([j \in DOMAIN r |-> ExpRel(r[j], m, lo)], LAMBDA e :
             Bind(SumSeq(e), LAMBDA total :
                 [j \in DOMAIN r |-> <<e[j], total>>]))))

Softmax(scores) == [i \in DOMAIN scores |-> SoftmaxRow(scores[i])]

\* one row of weights @ value (the weights of a row share their denominator)
WeightedSum(w, v) ==
    IF w[1] = NaN THEN NaN
    ELSE <<SumSeq([j \in DOMAIN w |-> w[j][1] * v[j]]), w[1][2]>>

\* ------------------------------------------------------------------ Attention

\* Attention.__init__: head_size ** -0.5 raises ZeroDivisionError for head_size 0
AttentionInit(feature_size, head_size, causal, wk, wq, wv) ==
    IF head_size = 0
    THEN [kind |-> "error", error |-> "ZeroDivisionError"]
    ELSE [kind |-> "Attention", feature_size |-> feature_size,
          head_size |-> head_size, key |-> wk, query |-> wq, value |-> wv,
          causal |-> causal, causal_mask |-> None, training |-> TRUE]

\* the test without the comparison of the lengths
CacheMissNoneOnly(causal_mask, seq_length) == causal_mask = None

\* self.causal_mask is None or self.causal_mask.size(0) != seq_length
CacheMiss(causal_mask, seq_length) ==
    causal_mask = None \/ Len(causal_mask) # seq_length

\* torch.matmul(q, k.transpose(-2, -1)) * self.scale, for head_size 1 (scale 1)
RawScores(q, k) == [i \in DOMAIN q |-> [j \in DOMAIN k |-> q[i] * k[j]]]

Linear(w, x) == [t \in DOMAIN x |-> w * x[t]]

\* scores.masked_fill(~self.causal_mask, float('-inf'))
CausalFill(scores, causal_mask) ==
    LET n == Len(scores)
    IN  IF CanBroadcast(causal_mask, n, n)
        THEN [ok |-> TRUE,
              val |-> MaskedFill(scores, Invert(Broadcast(causal_mask, n, n)), NegInf)]
        ELSE [ok |-> FALSE, val |-> scores]

\* the external mask written over the scores: 0 where it allows, -inf elsewhere
ExternalFillReplace(scores, mask) ==
    [i \in DOMAIN scores |-> [j \in DOMAIN scores[i] |->
        IF mask[j] = 0 THEN NegInf ELSE 0]]

\* the external mask with its polarity inverted, masked_fill(mask == 1, ...)
ExternalFillInverted(scores, mask) ==
    MaskedFill(scores, [i \in DOMAIN scores |-> [j \in DOMAIN scores[i] |-> mask[j] = 1]],
               NegInf)

\* mask.unsqueeze(1).expand_as(scores); scores.masked_fill(mask == 0, float('-inf'))
ExternalFill(scores, mask) ==
    MaskedFill(scores, [i \in DOMAIN scores |-> [j \in DOMAIN scores[i] |-> mask[j] = 0]],
               NegInf)

Idle == [pc |-> "idle", op |-> "none"]

\* no forward call is in progress
Quiet == \A t \in Threads : calls[t].pc = "idle"

\* lines 48-59: the arguments are bound, the local scores are computed
AttnStart(t, lens) ==
    /\ obj.kind = "Attention"
    /\ calls[t].pc = "idle"
    /\ \E n \in lens : \E x \in Vectors(n, TokVals) :
       \E mask \in {None} \cup Vectors(n, {0, 1}) :
          calls' = [calls EXCEPT ![t] =
              [pc |-> IF obj.causal THEN "test" ELSE "fill", op |-> "Attention.forward",
               seq_length |-> n, x |-> x, mask |-> mask,
               local_mask |-> None, entry |-> obj.causal_mask, stored |-> FALSE]]
    /\ UNCHANGED <<obj, born>>

\* line 60
AttnTest(t) ==
    /\ calls[t].pc = "test"
    /\ calls' = [calls EXCEPT ![t].pc =
           IF CacheMiss(obj.causal_mask, calls[t].seq_length) THEN "build" ELSE "fill",
                              ![t].entry = obj.causal_mask]
    /\ UNCHANGED <<obj, born>>

\* line 62
AttnBuild(t) ==
    /\ calls[t].pc = "build"
    /\ calls' = [calls EXCEPT ![t].pc = "store",
                              ![t].local_mask = Tril(calls[t].seq_length)]
    /\ UNCHANGED <<obj, born>>

\* self.register_buffer('causal_mask', causal_mask)
RegisterMask(o, causal_mask) == [o EXCEPT !.causal_mask = causal_mask]

\* line 63
AttnStore(t) ==
    /\ calls[t].pc = "store"
    /\ obj' = RegisterMask(obj, calls[t].local_mask)
    /\ calls' = [calls EXCEPT ![t].pc = "fill", ![t].stored = TRUE]
    /\ UNCHANGED born

\* lines 64-76 on the scores of lines 51-56
AttentionResult(o, x, mask) ==
    Bind(RawScores(Linear(o.query, x), Linear(o.key, x)), LAMBDA raw :
    Bind(IF o.causal THEN CausalFill(raw, o.causal_mask)
         ELSE [ok |-> TRUE, val |-> raw], LAMBDA cfill :
        IF ~cfill.ok
        THEN [status |-> "RuntimeError", used |-> o.causal_mask, raw |-> raw,
              causal_scores |-> None, scores |-> None, weights |-> None,
              output |-> None]
        ELSE
    Bind(IF mask = None THEN cfill.val ELSE ExternalFill(cfill.val, mask),
         LAMBDA masked :
    Bind(Softmax(masked), LAMBDA weights :
    Bind(Linear(o.value, x), LAMBDA v :
        [status |-> "ok", used |-> IF o.causal THEN o.causal_mask ELSE None,
         raw |-> raw, causal_scores |-> cfill.val, scores |-> masked,
         weights |-> weights,
         output |-> [i \in DOMAIN weights |-> WeightedSum(weights[i], v)]])))))

AttnFill(t) ==
    /\ calls[t].pc = "fill"
    /\ calls' = [calls EXCEPT ![t] =
           [pc |-> "done", op |-> "Attention.forward",
            seq_length |-> calls[t].seq_length, x |-> calls[t].x,
            mask |-> calls[t].mask, entry |-> calls[t].entry,
            stored |-> calls[t].stored,
            ret |-> AttentionResult(obj, calls[t].x, calls[t].mask)]]
    /\ UNCHANGED <<obj, born>>

\* the caller takes the result
Return(t) ==
    /\ calls[t].pc = "done"
    /\ calls' = [calls EXCEPT ![t] = Idle]
    /\ UNCHANGED <<obj, born>>

\* ------------------------------------------------------------------ MultiHeadAttentionBlock

\* MultiHeadAttentionBlock.__init__; w = <<w_q, w_k, w_v, w_o>>, each Linear
\* weight being that multiple of the identity, and dropout a percentage
BlockInit(d_model, h, dropout, w) ==
    IF d_model % h # 0
    THEN [kind |-> "error", error |-> "AssertionError"]
    ELSE [kind |-> "MultiHeadAttentionBlock", d_model |-> d_model, h |-> h,
          d_k |-> d_model \div h, w_q |-> w[1], w_k |-> w[2], w_v |-> w[3],
          w_o |-> w[4], dropout |-> dropout, training |-> TRUE]

\* a Linear(d_model, d_model) layer on tokens whose d_model features are equal
Project(w, x, d_model) == [t \in DOMAIN x |-> [f \in 1..d_model |-> w * x[t]]]

\* x.view(B, Seq_Len, h, d_k).transpose(1, 2)
SplitHeads(x, h, d_k) ==
    [hd \in 1..h |-> [t \in DOMAIN x |-> [c \in 1..d_k |-> x[t][(hd - 1) * d_k + c]]]]

Dot(a, b) == SumSeq([c \in DOMAIN a |-> a[c] * b[c]])

\* (query @ key.transpose(-2, -1)) / math.sqrt(d_k), kept in units of 1/sqrt(d_k)
BlockScores(query, key) ==
    [i \in DOMAIN query |-> [j \in DOMAIN key |-> Dot(query[i], key[j])]]

\* the fill of Attention.forward used in the block: float('-inf')
BlockFillInf(scores, mask) ==
    MaskedFill(scores, [i \in DOMAIN mask |-> [j \in DOMAIN mask[i] |-> mask[i][j] = 0]],
               NegInf)

\* attention_scores.masked_fill_(mask == 0, -1e9)
BlockFill(scores, mask) ==
    MaskedFill(scores, [i \in DOMAIN mask |-> [j \in DOMAIN mask[i] |-> mask[i][j] = 0]],
               NegBig)

\* nn.Dropout that does not look at the mode flag
DropoutAlways(p, training) == p > 0

\* nn.Dropout(p) on a weight: the identity unless training with p > 0, when a
\* dropped entry becomes 0 and a kept one is divided by 1 - p
DropoutActive(p, training) == training /\ p > 0

Dropout(w, p, training, keep) ==
    IF ~DropoutActive(p, training) \/ w = NaN THEN w
    ELSE <<IF keep THEN w[1] * 100 ELSE 0, w[2] * (100 - p)>>

\* one head of MultiHeadAttentionBlock.attention
HeadAttention(query, key, value, mask, p, training, keep) ==
    Bind(BlockScores(query, key), LAMBDA raw :
    Bind(IF mask = None THEN raw ELSE BlockFill(raw, mask), LAMBDA scores :
    Bind(Softmax(scores), LAMBDA soft :
    Bind([i \in DOMAIN soft |-> [j \in DOMAIN soft[i] |->
             Dropout(soft[i][j], p, training, keep[i][j])]], LAMBDA weights :
        [scores |-> scores, softmax |-> soft, attention_scores |-> weights,
         x |-> [i \in DOMAIN weights |-> [c \in DOMAIN value[1] |->
                   WeightedSum(weights[i], [j \in DOMAIN value |-> value[j][c]])]]]))))

\* x.transpose(1, 2).contiguous().view(B, -1, h * d_k), then self.w_o
MergeHeads(x, h, d_k, w_o) ==
    [i \in DOMAIN x[1] |-> [f \in 1..(h * d_k) |->
        LET e == x[((f - 1) \div d_k) + 1][i][((f - 1) % d_k) + 1]
        IN  <<w_o * e[1], e[2]>>]]

\* a forward that also overwrites self.d_k with the width it was given
StoreScoresAndWidth(o, scores) ==
    [f \in DOMAIN o \cup {"attention_scores"} |->
        IF f = "attention_scores" THEN scores
        ELSE IF f = "d_k" THEN o.d_model ELSE o[f]]

\* x, self.attention_scores = MultiHeadAttentionBlock.attention(...)
StoreScores(o, scores) ==
    [f \in DOMAIN o \cup {"attention_scores"} |->
        IF f = "attention_scores" THEN scores ELSE o[f]]

\* MultiHeadAttentionBlock.forward(q, k, v, mask)
BlockResult(o, q, k, v, mask, keep) ==
    Bind(SplitHeads(Project(o.w_q, q, o.d_model), o.h, o.d_k), LAMBDA query :
    Bind(SplitHeads(Project(o.w_k, k, o.d_model), o.h, o.d_k), LAMBDA key :
    Bind(SplitHeads(Project(o.w_v, v, o.d_model), o.h, o.d_k), LAMBDA value :
    Bind([hd \in 1..o.h |->
             HeadAttention(query[hd], key[hd], value[hd], mask,
                           o.dropout, o.training, keep)], LAMBDA head :
        [status |-> "ok",
         scores |-> [hd \in 1..o.h |-> head[hd].scores],
         softmax |-> [hd \in 1..o.h |-> head[hd].softmax],
         weights |-> [hd \in 1..o.h |-> head[hd].attention_scores],
         output |-> MergeHeads([hd \in 1..o.h |-> head[hd].x], o.h, o.d_k, o.w_o)]))))

\* masks a caller builds from padding flags: (1, 1, Seq_Len) broadcast over the
\* query rows, and the same combined with the causal triangle (tgt_mask)
PadMask(pad, rows) == [i \in 1..rows |-> pad]

TgtMask(pad) ==
    [i \in DOMAIN pad |-> [j \in DOMAIN pad |-> IF j <= i THEN pad[j] ELSE 0]]

BlockMasks(rows, cols) ==
    {None} \cup {PadMask(pad, rows) : pad \in Vectors(cols, {0, 1})}
           \cup (IF rows = cols THEN {TgtMask(pad) : pad \in Vectors(cols, {0, 1})}
                 ELSE {})

\* outcomes of the random dropout mask that are explored
KeepPatterns(rows, cols) ==
    {[i \in 1..rows |-> [j \in 1..cols |-> TRUE]],
     [i \in 1..rows |-> [j \in 1..cols |-> i # j]]}

KeepAll(rows, cols) == {[i \in 1..rows |-> [j \in 1..cols |-> TRUE]]}

\* self.self_attention_block(x, x, x, src_mask), the call of EncoderBlock.forward
BlockForward(t) ==
    /\ obj.kind = "MultiHeadAttentionBlock"
    /\ Quiet
    /\ \E n \in BlockLengths : \E x \in Vectors(n, TokVals) :
       \E mask \in BlockMasks(n, n) :
       \E keep \in IF DropoutActive(obj.dropout, obj.training)
                   THEN KeepPatterns(n, n) ELSE KeepAll(n, n) :
       \E ret \in {BlockResult(obj, x, x, x, mask, keep)} :
          /\ obj' = StoreScores(obj, ret.weights)
          /\ calls' = [calls EXCEPT ![t] =
                 [pc |-> "done", op |-> "MultiHeadAttentionBlock.forward",
                  x |-> x, mask |-> mask, ret |-> ret]]
    /\ UNCHANGED born

\* the classes whose forward reads the training flag
DropoutKinds == {"MultiHeadAttentionBlock", "TimeSeriesTransformer", "PositionalEmbedding"}

\* nn.Module.train(mode): train() and eval() set the flag dropout reads
SetMode(mode) ==
    /\ obj.kind \in DropoutKinds
    /\ Quiet
    /\ obj.training # mode
    /\ obj' = [obj EXCEPT !.training = mode]
    /\ UNCHANGED <<born, calls>>

\* ------------------------------------------------------------------ shapes

\* A tensor of the forecasting model is [dims, width, slots]: `dims` the axes
\* before the last, `width` the length of the last (feature) axis and `slots`
\* the feature vectors in row-major order, each named by the <<batch, position>>
\* of the input it stands at.

RECURSIVE Product(_)
Product(s) == IF s = <<>> THEN 1 ELSE Head(s) * Product(Tail(s))

Failed(error) == [status |-> error]

\* the position of Python index i on an axis of length n
PyIndex(i, n) == IF i < 0 THEN n + i + 1 ELSE i + 1

\* nn.Linear(in_features, out_features) on the last axis
LinearShape(x, in_features, out_features) ==
    IF x.status # "ok" THEN x
    ELSE IF x.width # in_features THEN Failed("RuntimeError")
    ELSE [x EXCEPT !.width = out_features]

\* Tensor.view(dims, -1) and Tensor.view(dims, width): the elements keep their order
View(x, dims, width) ==
    LET numel == Product(x.dims) * x.width
        w     == IF width = -1 THEN numel \div Product(dims) ELSE width
    IN  IF x.status # "ok" THEN x
        ELSE IF Product(dims) * w # numel \/ Len(x.slots) # Product(dims)
        THEN Failed("RuntimeError")
        ELSE [status |-> "ok", dims |-> dims, width |-> w, slots |-> x.slots]

\* a lookup that wraps the index around the table
EmbeddingRowsWrapped(num_embeddings, T) ==
    [status |-> "ok", rows |-> [t \in 1..T |-> (t - 1) % num_embeddings]]

\* nn.Embedding(num_embeddings, dim)(torch.arange(T)): the table rows looked up
EmbeddingRows(num_embeddings, T) ==
    IF \E t \in 0..(T - 1) : t >= num_embeddings
    THEN Failed("IndexError")
    ELSE [status |-> "ok", rows |-> [t \in 1..T |-> t - 1]]

\* x[:, i, :] of a (B, T, width) tensor
SelectPosition(x, i) ==
    IF x.status # "ok" THEN x
    ELSE LET B == x.dims[1]
             T == x.dims[2]
             p == PyIndex(i, T)
         IN  IF p < 1 \/ p > T THEN Failed("IndexError")
             ELSE [status |-> "ok", dims |-> <<B>>, width |-> x.width,
                   slots |-> [b \in 1..B |-> x.slots[(b - 1) * T + p]]]

\* ------------------------------------------------------------------ MultiHeadAttention

\* the number of heads TimeSeriesTransformer passes to MultiHeadAttention
NumHeads == 4

\* the default expansion_factor of FeedForward
Expansion == 4

\* MultiHeadAttention.__init__(num_heads, head_size, feature_size)
MultiHeadInit(num_heads, head_size, feature_size) ==
    LET head == AttentionInit(feature_size, head_size, FALSE, 1, 1, 1)
    IN  IF head.kind = "error" THEN head
        ELSE [kind |-> "MultiHeadAttention", num_heads |-> num_heads,
              head_size |-> head_size, feature_size |-> feature_size,
              heads |-> [i \in 1..num_heads |-> head]]

\* Attention.forward on shapes, with mask None on a head that is not causal: the
\* output lies on the slots of the input, with head_size features
HeadShape(head, x) ==
    IF x.status # "ok" THEN x
    ELSE IF Len(x.dims) # 2 THEN Failed("ValueError")
    ELSE LinearShape(x, head.feature_size, head.head_size)

\* MultiHeadAttention.forward: torch.cat of the heads, then output_projection
MultiHeadShape(m, x) ==
    LET outs == [i \in 1..m.num_heads |-> HeadShape(m.heads[i], x)]
        cat  == IF outs[1].status # "ok" THEN outs[1]
                ELSE [outs[1] EXCEPT
                         !.width = SumSeq([i \in 1..m.num_heads |-> outs[i].width])]
    IN  LinearShape(cat, m.num_heads * m.head_size, m.feature_size)

\* FeedForward.forward: Linear, ReLU, Dropout, Linear
FeedForwardShape(n_embd, x) ==
    LinearShape(LinearShape(x, n_embd, n_embd * Expansion), n_embd * Expansion, n_embd)

\* ------------------------------------------------------------------ TimeSeriesTransformer

\* TimeSeriesTransformer.__init__
ForecastInit(n_embd, block_size, forecast_horizon) ==
    LET sa_heads == MultiHeadInit(NumHeads, n_embd \div NumHeads, n_embd)
    IN  IF sa_heads.kind = "error" THEN sa_heads
        ELSE [kind |-> "TimeSeriesTransformer", forecast_horizon |-> forecast_horizon,
              block_size |-> block_size, n_embd |-> n_embd, sa_heads |-> sa_heads,
              training |-> TRUE]

\* the (B, T) input of scalars
InputTensor(B, T) ==
    [status |-> "ok", dims |-> <<B, T>>, width |-> 1,
     slots |-> [r \in 1..(B * T) |-> <<((r - 1) \div T) + 1, ((r - 1) % T) + 1>>]]

\* output[:, 0, :]
FirstPosition(x) == SelectPosition(x, 0)

\* output[:, -1, :]
LastPosition(x) == SelectPosition(x, -1)

\* TimeSeriesTransformer.forward
ForecastResult(o, B, T) ==
    Bind(View(LinearShape(View(InputTensor(B, T), <<B * T>>, 1), 1, o.n_embd),
              <<B, T>>, -1), LAMBDA x :
    Bind(EmbeddingRows(o.block_size, T), LAMBDA pos_emb :
        IF pos_emb.status # "ok" THEN pos_emb
        ELSE
    Bind(FeedForwardShape(o.n_embd, MultiHeadShape(o.sa_heads, x)), LAMBDA hidden :
    Bind(LastPosition(LinearShape(hidden, o.n_embd, o.forecast_horizon)), LAMBDA last :
        IF last.status # "ok" THEN last
        ELSE IF B * o.forecast_horizon # Product(last.dims) * last.width
        THEN Failed("RuntimeError")
        ELSE [status |-> "ok", shape |-> <<B, o.forecast_horizon>>,
              slots |-> last.slots, hidden |-> hidden.slots,
              positions |-> pos_emb.rows]))))

\* the dropout_rate of FeedForward, in percent (dropout_rate=0.1)
FeedForwardDropout == 10

\* the batches explored: the rows alternate between a series and its complement
ForecastInputs(B, T) ==
    {[b \in 1..B |-> [t \in 1..T |-> (s[t] + b - 1) % 2]] : s \in Vectors(T, TokVals)}

\* nn.ReLU on a fraction
Relu(v) == IF v[1] < 0 THEN <<0, v[2]>> ELSE v

\* The values of lines 150-163 for one batch row `series`, every Linear weight
\* being 1 and the row r of the position table holding r: the tokens, the
\* attention of a head (the heads are equal), and the feed-forward network
\* before and after its dropout.  keep[t] tells whether the random mask keeps
\* the hidden units of position t.
ForecastRow(o, series, keep) ==
    Bind([t \in DOMAIN series |-> series[t] + (t - 1)], LAMBDA tokens :
    Bind(AttentionResult(o.sa_heads.heads[1], tokens, None), LAMBDA attn :
    Bind([t \in DOMAIN series |-> Relu(attn.output[t])], LAMBDA relu :
        [tokens |-> tokens, relu |-> relu,
         dropped |-> [t \in DOMAIN series |->
                         Dropout(relu[t], FeedForwardDropout, o.training, keep[t])]])))

\* the value of every output row of a forward whose shapes are `shape`
ForecastValues(o, x, keep, shape) ==
    IF shape.status # "ok" THEN None
    ELSE Bind([b \in DOMAIN x |-> ForecastRow(o, x[b], keep[b])], LAMBDA row :
        [relu |-> [b \in DOMAIN x |-> row[b].relu],
         dropped |-> [b \in DOMAIN x |-> row[b].dropped],
         output |-> [r \in DOMAIN shape.slots |->
                        row[shape.slots[r][1]].dropped[shape.slots[r][2]]]])

ForecastForward(t) ==
    /\ obj.kind = "TimeSeriesTransformer"
    /\ Quiet
    /\ \E B \in 1..MaxBatch : \E T \in Lengths : \E x \in ForecastInputs(B, T) :
       \E keep \in IF DropoutActive(FeedForwardDropout, obj.training)
                   THEN KeepPatterns(B, T) ELSE KeepAll(B, T) :
       \E ret \in {ForecastResult(obj, B, T)} :
          calls' = [calls EXCEPT ![t] =
              [pc |-> "done", op |-> "TimeSeriesTransformer.forward",
               B |-> B, T |-> T, x |-> x, ret |-> ret,
               values |-> ForecastValues(obj, x, keep, ret)]]
    /\ UNCHANGED <<obj, born>>

\* ------------------------------------------------------------------ PositionalEmbedding

\* PositionalEmbedding.__init__: pe[:, 0::2] has ceil(d_model / 2) columns, like
\* position * div_term; pe[:, 1::2] has floor(d_model / 2), and the assignment
\* broadcasts only a single column
PositionalInit(d_model, seq_len, dropout) ==
    LET even == (d_model + 1) \div 2
        odd  == d_model \div 2
    IN  IF even # odd /\ even # 1
        THEN [kind |-> "error", error |-> "RuntimeError"]
        ELSE [kind |-> "PositionalEmbedding", d_model |-> d_model,
              seq_len |-> seq_len, dropout |-> dropout,
              pe |-> <<1, seq_len, d_model>>, training |-> TRUE]

\* self.pe[:, :x.shape[1], :]: a slice stops at the end of the axis
SliceRows(pe, stop) == <<pe[1], IF stop < pe[2] THEN stop ELSE pe[2], pe[3]>>

\* PositionalEmbedding.forward: Tensor.requires_grad is a bool, and calling it
\* raises TypeError before the sum is formed
PositionalResult(o, B, T) ==
    [status |-> "TypeError", sliced |-> SliceRows(o.pe, T)]

PositionalForward(t) ==
    /\ obj.kind = "PositionalEmbedding"
    /\ Quiet
    /\ \E B \in 1..MaxBatch : \E T \in Lengths :
          calls' = [calls EXCEPT ![t] =
              [pc |-> "done", op |-> "PositionalEmbedding.forward",
               B |-> B, T |-> T, ret |-> PositionalResult(obj, B, T)]]
    /\ UNCHANGED <<obj, born>>

\* ------------------------------------------------------------------ residual wrapper

\* A value of the encoder-decoder stack is the expression that computed it, in
\* prefix form: <<"x">> is the input x, <<"norm", "x">> is norm(x) and
\* <<"add">> \o a \o b is a + b.  An expression lists its operations outermost
\* first, so the innermost (rightmost) operation ran first.

\* an exception that leaves `class`.__init__
Raise(class, error) == [kind |-> "error", error |-> error, class |-> class]

Value(v) == [status |-> "ok", value |-> v]

\* LayerNormalization.__init__: torch.nn has no attribute Paremeter
LayerNormInit ==
    Raise("LayerNormalization", "AttributeError")

\* LayerNormalization.forward
LayerNormForward(o, x) == Value(<<"norm">> \o x)

\* nn.Dropout.forward: the mask is applied whatever the mode; the mode decides
\* whether it drops anything
DropoutForward(x) == Value(<<"dropout">> \o x)

\* ResidualConnection.__init__
ResidualInit(dropout) ==
    LET norm == LayerNormInit
    IN  IF norm.kind = "error" THEN Raise("ResidualConnection", norm.error)
        ELSE [kind |-> "ResidualConnection", dropout |-> dropout, norm |-> norm,
              training |-> TRUE]

\* the values a sublayer is called on
Values == Seq(STRING)

\* ResidualConnection.forward: x + self.dropout(sublayer(self.norm(x))); the
\* callable `sublayer` is a function on Values
ResidualForward(o, x, sublayer) ==
    Bind(LayerNormForward(o.norm, x), LAMBDA normed :
    Bind(sublayer[normed.value], LAMBDA sub :
        IF sub.status # "ok" THEN sub
        ELSE Value(<<"add">> \o x \o DropoutForward(sub.value).value)))

\* the forward of the wrapper that construction returned, on the input x with a
\* sublayer that returns sublayer(v); nothing runs when construction raised
ResidualUse(o) ==
    IF o.kind = "error" THEN [status |-> o.error, value |-> None]
    ELSE ResidualForward(o, <<"x">>, [v \in Values |-> Value(<<"sublayer">> \o v)])

\* ------------------------------------------------------------------ decoder block

\* FeedForwardBlock.__init__
FeedForwardBlockInit(d_model, d_ff, dropout) ==
    [kind |-> "FeedForwardBlock", d_model |-> d_model, d_ff |-> d_ff,
     dropout |-> dropout, training |-> TRUE]

\* FeedForwardBlock.forward: linear_2(dropout(relu(linear_1(x))))
FeedForwardBlockForward(o, x) == Value(<<"feed_forward">> \o x)

\* a call block(*args) of MultiHeadAttentionBlock.forward(self, q, k, v, mask),
\* whose four parameters have no defaults; `name` names the block
CallBlock(name, args) ==
    IF Len(args) # 4 THEN [status |-> "TypeError", value |-> None]
    ELSE Value(<<name>> \o args[1] \o args[2] \o args[3] \o args[4])

\* DecoderBlock.__init__: its first statement, super.__init__(), calls the slot
\* wrapper of the type super without an instance and raises TypeError
DecoderBlockInit(self_attention_block, cross_attention_block, feed_forward_block, dropout) ==
    Raise("DecoderBlock", "TypeError")

\* DecoderBlock.forward
DecoderBlockForward(o, x, encoder_output, src_mask, tgt_mask) ==
    Bind(ResidualForward(o.residual_connections[1], x,
             [v \in Values |-> CallBlock("self_attention", <<v, v, tgt_mask>>)]),
         LAMBDA r0 :
        IF r0.status # "ok" THEN r0
        ELSE
    Bind(ResidualForward(o.residual_connections[2], r0.value,
             [v \in Values |->
                 CallBlock("cross_attention", <<v, encoder_output, src_mask>>)]),
         LAMBDA r1 :
        IF r1.status # "ok" THEN r1
        ELSE ResidualForward(o.residual_connections[3], r1.value,
                 [v \in Values |-> FeedForwardBlockForward(o.feed_forward_block, v)])))

\* the forward of the block that construction returned; nothing runs when
\* construction raised
DecoderUse(o) ==
    IF o.kind = "error" THEN [status |-> o.error, value |-> None]
    ELSE DecoderBlockForward(o, <<"x">>, <<"encoder_output">>, <<"src_mask">>,
                             <<"tgt_mask">>)

\* ------------------------------------------------------------------ encoder

\* EncoderBlock.__init__: the list of two ResidualConnection(dropout)
EncoderBlockInit(self_attention_block, feed_forward_block, dropout) ==
    LET residual_connection == [i \in 1..2 |-> ResidualInit(dropout)]
    IN  IF residual_connection[1].kind = "error"
        THEN Raise("EncoderBlock", residual_connection[1].error)
        ELSE [kind |-> "EncoderBlock", self_attention_block |-> self_attention_block,
              feed_forward_block |-> feed_forward_block,
              residual_connection |-> residual_connection, training |-> TRUE]

\* a call layer(*args) of EncoderBlock.forward(self, src_mask): one parameter,
\* and a body whose first statement reads the local x before it is assigned
CallEncoderBlock(o, args) ==
    IF Len(args) # 1 THEN [status |-> "TypeError", value |-> None]
    ELSE [status |-> "UnboundLocalError", value |-> None]

\* Encoder.__init__: `self.norm - LayerNormalization()` reads self.norm, which
\* was never assigned
EncoderInit(layers) ==
    Raise("Encoder", "AttributeError")

\* for layer in self.layers: x = layer(x, mask), from the k-th layer on
RECURSIVE EncoderLayers(_, _, _, _)
EncoderLayers(layers, k, x, mask) ==
    IF k > Len(layers) THEN Value(x)
    ELSE Bind(CallEncoderBlock(layers[k], <<x, mask>>), LAMBDA r :
             IF r.status # "ok" THEN r
             ELSE EncoderLayers(layers, k + 1, r.value, mask))

\* Encoder.forward
EncoderForward(o, x, mask) ==
    Bind(EncoderLayers(o.layers, 1, x, mask), LAMBDA r :
        IF r.status # "ok" THEN r
        ELSE IF "norm" \notin DOMAIN o THEN [status |-> "AttributeError", value |-> None]
        ELSE LayerNormForward(o.norm, r.value))

\* the forward of the encoder that construction returned; nothing runs when
\* construction raised
EncoderUse(o) ==
    IF o.kind = "error" THEN [status |-> o.error, value |-> None]
    ELSE EncoderForward(o, <<"x">>, <<"mask">>)

\* ------------------------------------------------------------------ construction

NoObject == [kind |-> "none"]

ConstructAttention ==
    /\ obj.kind = "none"
    /\ \E head_size \in {0, 1} : \E causal \in BOOLEAN :
       \E wk \in ParamVals : \E wq \in ParamVals : \E wv \in ParamVals :
          /\ obj' = AttentionInit(1, head_size, causal, wk, wq, wv)
          /\ born' = obj'
    /\ UNCHANGED calls

ConstructBlock ==
    /\ obj.kind = "none"
    /\ \E d_model \in 1..MaxModel : \E h \in 1..MaxModel :
       \E dropout \in DropRates : \E w \in BlockParams :
          /\ obj' = BlockInit(d_model, h, dropout, w)
          /\ born' = obj'
    /\ UNCHANGED calls

\* ------------------------------------------------------------------ specifications

Init ==
    /\ obj = NoObject
    /\ born = NoObject
    /\ calls = [t \in Threads |-> Idle]

Begin(t, lens) ==
    \/ AttnStart(t, lens)
    \/ BlockForward(t)
    \/ ForecastForward(t)
    \/ PositionalForward(t)

Step(t) ==
    \/ AttnTest(t)
    \/ AttnBuild(t)
    \/ AttnStore(t)
    \/ AttnFill(t)
    \/ Return(t)

ConstructForecast ==
    /\ obj.kind = "none"
    /\ \E n_embd \in 1..MaxEmbd : \E block_size \in 1..MaxBlock :
       \E forecast_horizon \in 1..MaxHorizon :
          /\ obj' = ForecastInit(n_embd, block_size, forecast_horizon)
          /\ born' = obj'
    /\ UNCHANGED calls

ConstructPositional ==
    /\ obj.kind = "none"
    /\ \E d_model \in 1..MaxEmbd : \E seq_len \in 1..MaxBlock :
       \E dropout \in DropRates :
          /\ obj' = PositionalInit(d_model, seq_len, dropout)
          /\ born' = obj'
    /\ UNCHANGED calls

ConstructResidual ==
    /\ obj.kind = "none"
    /\ \E dropout \in DropRates :
          /\ obj' = ResidualInit(dropout)
          /\ born' = obj'
    /\ UNCHANGED calls

ConstructDecoderBlock ==
    /\ obj.kind = "none"
    /\ \E d_model \in 1..MaxModel : \E dropout \in DropRates : \E w \in BlockParams :
          /\ obj' = DecoderBlockInit(BlockInit(d_model, 1, dropout, w),
                                     BlockInit(d_model, 1, dropout, w),
                                     FeedForwardBlockInit(d_model, d_model, dropout),
                                     dropout)
          /\ born' = obj'
    /\ UNCHANGED calls

\* Encoder(nn.ModuleList([EncoderBlock(...) for _ in range(N)])): the blocks are
\* built first, and an exception of theirs leaves the whole expression
ConstructEncoder ==
    /\ obj.kind = "none"
    /\ \E N \in 0..MaxLayers : \E d_model \in 1..MaxModel : \E dropout \in DropRates :
       \E w \in BlockParams :
       \E layers \in {[k \in 1..N |->
                          EncoderBlockInit(BlockInit(d_model, 1, dropout, w),
                              FeedForwardBlockInit(d_model, d_model, dropout),
                              dropout)]} :
          /\ obj' = IF N > 0 /\ layers[1].kind = "error" THEN layers[1]
                    ELSE EncoderInit(layers)
          /\ born' = obj'
    /\ UNCHANGED calls

Construct ==
    \/ ConstructAttention
    \/ ConstructBlock
    \/ ConstructForecast
    \/ ConstructPositional
    \/ ConstructResidual
    \/ ConstructDecoderBlock
    \/ ConstructEncoder

\* forward calls of several threads interleave
Next ==
    \/ Construct
    \/ \E mode \in BOOLEAN : SetMode(mode)
    \/ \E t \in Threads : Begin(t, RaceLengths)
    \/ \E t \in Threads : Step(t)

Spec == Init /\ [][Next]_vars

\* one forward call at a time; calls that do not overlap leave no frame behind,
\* so which caller makes them is immaterial and one caller makes them all
SeqNext ==
    \/ Construct
    \/ \E mode \in BOOLEAN : SetMode(mode)
    \/ \E t \in {CHOOSE c \in Threads : TRUE} : Quiet /\ Begin(t, Lengths)
    \/ \E t \in Threads : Step(t)

SeqSpec == Init /\ [][SeqNext]_vars

\* ------------------------------------------------------------------ properties

Done(t, op) == calls[t].pc = "done" /\ calls[t].op = op

IsZero(w) == w[1] = 0 /\ w[2] > 0

IsPositive(w) == w[1] > 0 /\ w[2] > 0

LowerTriangular(m, n) ==
    /\ Len(m) = n
    /\ \A i \in 1..n : Len(m[i]) = n /\ \A j \in 1..n : m[i][j] <=> (j <= i)

Forbidden(scores) ==
    {<<i, j>> \in (DOMAIN scores) \X (DOMAIN scores) : scores[i][j] = NegInf}

\* weights that are fractions of one denominator, none negative, summing to 1
ProbabilityRow(r) ==
    /\ \A j \in DOMAIN r : r[j][2] > 0 /\ r[j][2] = r[1][2] /\ r[j][1] >= 0
    /\ SumSeq([j \in DOMAIN r |-> r[j][1]]) = r[1][2]

\* C1: whatever the interleaving of the forward calls on a causal Attention,
\* every call completes having filled its scores with the lower-triangular mask
\* of its own sequence length.
C1_OwnMaskUnderInterleaving ==
    \A t \in Threads :
        Done(t, "Attention.forward") /\ obj.causal =>
            /\ calls[t].ret.status = "ok"
            /\ LowerTriangular(calls[t].ret.used, calls[t].seq_length)

\* C2: with one call at a time, a call stores a mask exactly when the cache was
\* empty or of another length at its test, leaves the cached mask as it found it
\* otherwise, and when it returns the cache is the lower-triangular mask
\* (diagonal included) of its sequence length.
C2_CacheFollowsLength ==
    \A t \in Threads :
        Done(t, "Attention.forward") /\ obj.causal =>
            LET c == calls[t]
            IN  /\ c.stored <=> (c.entry = None \/ Len(c.entry) # c.seq_length)
                /\ ~c.stored => obj.causal_mask = c.entry
                /\ LowerTriangular(obj.causal_mask, c.seq_length)

\* a call replaced a cached mask of another length
C2_Witness ==
    \E t \in Threads :
        /\ Done(t, "Attention.forward") /\ obj.causal
        /\ calls[t].entry # None
        /\ Len(calls[t].entry) # calls[t].seq_length
        /\ calls[t].stored

\* C3: in causal mode the causal fill forbids exactly the keys j > i of every
\* query i; the weight of a key j > i is 0 in every row that keeps an allowed
\* key, and without an external mask every key j <= i has a positive weight.
C3_CausalForbidsFuture ==
    \A t \in Threads :
        Done(t, "Attention.forward") /\ obj.causal =>
            LET c == calls[t]
                n == c.seq_length
            IN  /\ c.ret.status = "ok"
                /\ \A i \in 1..n : \A j \in 1..n :
                    /\ (c.ret.causal_scores[i][j] = NegInf) <=> (j > i)
                    /\ (j > i /\ \E a \in 1..n : c.ret.scores[i][a] # NegInf)
                           => IsZero(c.ret.weights[i][j])
                    /\ (c.mask = None /\ j > i) => IsZero(c.ret.weights[i][j])
                    /\ (c.mask = None /\ j <= i) => IsPositive(c.ret.weights[i][j])

\* a causal call of length 3 or more without an external mask has returned
C3_Witness ==
    \E t \in Threads :
        /\ Done(t, "Attention.forward") /\ obj.causal
        /\ calls[t].seq_length >= 3
        /\ calls[t].mask = None
        /\ IsZero(calls[t].ret.weights[1][3])

\* C4: with the causal mode and an external mask, a position is forbidden iff
\* j > i or the mask is 0 at key j; what the causal fill forbade stays forbidden;
\* and filling in the other order forbids the same positions.
C4_MasksCombine ==
    \A t \in Threads :
        Done(t, "Attention.forward") /\ obj.causal /\ calls[t].mask # None =>
            LET c == calls[t]
                n == c.seq_length
            IN  /\ c.ret.status = "ok"
                /\ \A i \in 1..n : \A j \in 1..n :
                    /\ (c.ret.scores[i][j] = NegInf) <=> (j > i \/ c.mask[j] = 0)
                    /\ c.ret.causal_scores[i][j] = NegInf => c.ret.scores[i][j] = NegInf
                /\ Forbidden(CausalFill(ExternalFill(c.ret.raw, c.mask),
                                        obj.causal_mask).val)
                       = Forbidden(c.ret.scores)

\* the mask forbids a key the causal mask allows and allows one it forbids
C4_Witness ==
    \E t \in Threads :
        /\ Done(t, "Attention.forward") /\ obj.causal
        /\ calls[t].seq_length >= 2
        /\ calls[t].mask # None
        /\ calls[t].mask[1] = 0 /\ calls[t].mask[2] = 1
        /\ calls[t].ret.scores[2][1] = NegInf

C6_NonDividingHeadsRejected ==
    /\ obj.kind = "MultiHeadAttentionBlock" => obj.d_model % obj.h = 0
    /\ obj.kind = "TimeSeriesTransformer" =>
           obj.sa_heads.feature_size % obj.sa_heads.num_heads = 0
    /\ \A t \in Threads :
           Done(t, "TimeSeriesTransformer.forward") /\ calls[t].ret.status = "ok" =>
               obj.n_embd % NumHeads = 0

\* C7: a forward call longer than the configured maximum fails, and a call that
\* succeeds gave every position the table row of its own index.
C7_TooLongFails ==
    \A t \in Threads :
        /\ Done(t, "TimeSeriesTransformer.forward") =>
               /\ calls[t].T > obj.block_size => calls[t].ret.status # "ok"
               /\ calls[t].ret.status = "ok" =>
                      /\ Len(calls[t].ret.positions) = calls[t].T
                      /\ \A p \in 1..calls[t].T : calls[t].ret.positions[p] = p - 1
        /\ Done(t, "PositionalEmbedding.forward") /\ calls[t].T > obj.seq_len =>
               calls[t].ret.status # "ok"

\* a call of length 2 on a model of block_size 1 has failed
C7_Witness ==
    \E t \in Threads :
        /\ Done(t, "TimeSeriesTransformer.forward")
        /\ obj.block_size = 1
        /\ calls[t].T = 2
        /\ calls[t].ret.status = "IndexError"

IsInstance ==
    obj.kind \in {"Attention", "MultiHeadAttentionBlock", "TimeSeriesTransformer",
                  "PositionalEmbedding"}

\* the fields in which the instance differs from what construction left
ChangedFields ==
    {f \in DOMAIN obj \cup DOMAIN born :
        ~(f \in DOMAIN obj /\ f \in DOMAIN born /\ obj[f] = born[f])}

C10_ForecastFromLastPosition ==
    \A t \in Threads :
        Done(t, "TimeSeriesTransformer.forward") /\ calls[t].T <= obj.block_size =>
            LET c == calls[t]
            IN  /\ c.ret.status = "ok"
                /\ c.ret.shape = <<c.B, obj.forecast_horizon>>
                /\ Len(c.ret.slots) = c.B
                /\ \A b \in 1..c.B :
                       /\ c.ret.slots[b] = <<b, c.T>>
                       /\ c.ret.slots[b] = c.ret.hidden[(b - 1) * c.T + c.T]

\* a batch of 2 windows of length 2 was forecast
C10_Witness ==
    \E t \in Threads :
        /\ Done(t, "TimeSeriesTransformer.forward")
        /\ calls[t].B = 2 /\ calls[t].T = 2
        /\ calls[t].ret.status = "ok"
        /\ calls[t].ret.shape = <<2, obj.forecast_horizon>>


\* the instance as constructed, with the mode flag set to evaluation
BornEval == [born EXCEPT !.training = FALSE]

\* C11: in evaluation mode dropout is the identity in every component (the
\* feed-forward network of the time-series model returns what its ReLU gave,
\* MultiHeadAttentionBlock returns its softmax), and a forward of the
\* time-series model returns what the instance as constructed returns on that
\* input with nothing dropped, whatever calls ran before it.
C11_EvalDropoutIdentity ==
    \A t \in Threads :
        /\ Done(t, "TimeSeriesTransformer.forward") /\ ~obj.training
              /\ calls[t].ret.status = "ok"
           => /\ calls[t].values.dropped = calls[t].values.relu
              /\ calls[t].values.output =
                    ForecastValues(BornEval, calls[t].x,
                                   CHOOSE k \in KeepAll(calls[t].B, calls[t].T) : TRUE,
                                   ForecastResult(BornEval, calls[t].B, calls[t].T)).output
        /\ Done(t, "MultiHeadAttentionBlock.forward") /\ ~obj.training
           => calls[t].ret.weights = calls[t].ret.softmax

\* an evaluation-mode forecast of a batch of two series of length 2 whose last
\* positions carry nonzero values, on an instance that was switched from training
C11_Witness ==
    \E t \in Threads :
        /\ Done(t, "TimeSeriesTransformer.forward")
        /\ ~obj.training /\ born.training
        /\ calls[t].ret.status = "ok"
        /\ calls[t].B = 2 /\ calls[t].T = 2
        /\ \A b \in 1..2 : calls[t].values.output[b][1] > 0


\* an attempt to construct `class` has been made
Requested(class) ==
    \/ obj.kind = class
    \/ obj.kind = "error" /\ "class" \in DOMAIN obj /\ obj.class = class

\* C12: the forward of a ResidualConnection normalizes the input, calls the
\* sublayer once on the normalized value, applies dropout to the sublayer's
\* result and then adds the unnormalized input.
C12_ResidualOrder ==
    Requested("ResidualConnection") =>
        /\ ResidualUse(obj).status = "ok"
        /\ ResidualUse(obj).value = <<"add", "x", "dropout", "sublayer", "norm", "x">>


\* x + dropout(inner), the value a residual wrapper returns
Wrapped(x, inner) == <<"add">> \o x \o <<"dropout">> \o inner

\* the value the three wrapped sublayers of a decoder block return on x
DecoderExpected ==
    LET x0 == <<"x">>
        n0 == <<"norm">> \o x0
        x1 == Wrapped(x0, <<"self_attention">> \o n0 \o n0 \o n0 \o <<"tgt_mask">>)
        n1 == <<"norm">> \o x1
        x2 == Wrapped(x1, <<"cross_attention">> \o n1 \o <<"encoder_output">>
                              \o <<"encoder_output">> \o <<"src_mask">>)
    IN  Wrapped(x2, <<"feed_forward", "norm">> \o x2)

\* C13: the forward of a DecoderBlock runs self-attention (query, key and value
\* the decoder state, mask tgt_mask), then cross-attention (query the decoder
\* state, key and value the encoder output, mask src_mask), then feed-forward,
\* each inside a residual wrapper.
C13_DecoderOrder ==
    Requested("DecoderBlock") =>
        /\ DecoderUse(obj).status = "ok"
        /\ DecoderUse(obj).value = DecoderExpected


\* the value an encoder of n blocks returns on x: block k returns
\* layer k (its input, the mask), and one normalization follows the last block
RECURSIVE StackExpected(_)
StackExpected(n) ==
    IF n = 0 THEN <<"x">>
    ELSE <<"layer", ToString(n)>> \o StackExpected(n - 1) \o <<"mask">>

EncoderExpected(n) == <<"norm">> \o StackExpected(n)

\* C14: the forward of an Encoder of N >= 0 blocks completes, calls the blocks
\* once each in list order, each on the output of the one before it and the
\* unmodified mask, normalizes once after the last block, and the list of blocks
\* keeps its length.
C14_EncoderStack ==
    /\ Requested("Encoder") \/ Requested("EncoderBlock") =>
          /\ EncoderUse(obj).status = "ok"
          /\ \E n \in 0..MaxLayers : EncoderUse(obj).value = EncoderExpected(n)
    /\ obj.kind = "Encoder" => Len(obj.layers) = Len(born.layers)

====
